---- MODULE Spec2Model ----
(***************************************************************************)
(* Model of AttachmentsMixin (src/mcp_atlassian/jira/attachments.py):      *)
(* download_attachment, download_issue_attachments, upload_attachment,     *)
(* upload_attachments and get_issue_attachments_content, together with the *)
(* collaborators they call (jira.issue, jira._session.get,                 *)
(* jira.add_attachment) and the part of the filesystem they touch.         *)
(*                                                                         *)
(* Every public method is one action.  A call draws its arguments and the  *)
(* behaviour of the collaborators from bounded sets and records in the     *)
(* state what the call returned (or raised), the collaborator calls it     *)
(* made, and the filesystem it left behind.                                *)
(***************************************************************************)
EXTENDS Integers, Sequences, FiniteSets, TLC

VARIABLES
    op,     \* the public method that was called ("none" before any call)
    args,   \* its arguments
    env,    \* what the collaborators and the filesystem were at the call
    ret,    \* [raised |-> BOOLEAN, value |-> the dict returned, [bool |-> b] for a
            \* bool returned, [exception |-> name] for an exception raised]
    calls,  \* collaborator calls made during the call, in order
    fs,     \* the filesystem after the call
    fate    \* ghost: input positions behind the entries of the result lists

vars == <<op, args, env, ret, calls, fs, fate>>

(***************************************************************************)
(* Bounds of the model.                                                    *)
(***************************************************************************)
MaxItems == 2       \* longest attachment list of an issue
MaxPaths == 2       \* longest file_paths list of upload_attachments
MaxChunks == 3      \* most chunks a stream yields (byte-level specification)
MaxChunkLen == 2    \* longest chunk (byte-level specification)
MaxCap == 3         \* largest max_bytes_per_attachment (byte-level specification)

(***************************************************************************)
(* Python values.                                                          *)
(***************************************************************************)
None == <<>>
Some(x) == <<x>>

\* Sequences over S of length at most n.
SeqUpTo(S, n) == UNION {[1..k -> S] : k \in 0..n}

\* str objects whose characters matter are tuples of one-character strings.
Str_image_slash == <<"i", "m", "a", "g", "e", "/">>
Str_image_png == <<"i", "m", "a", "g", "e", "/", "p", "n", "g">>
Str_IMAGE_PNG == <<"I", "M", "A", "G", "E", "/", "P", "N", "G">>
Str_text_plain == <<"t", "e", "x", "t", "/", "p", "l", "a", "i", "n">>

UpperCase == <<"A", "B", "C", "D", "E", "F", "G", "H", "I", "J", "K", "L", "M",
               "N", "O", "P", "Q", "R", "S", "T", "U", "V", "W", "X", "Y", "Z">>
LowerCase == <<"a", "b", "c", "d", "e", "f", "g", "h", "i", "j", "k", "l", "m",
               "n", "o", "p", "q", "r", "s", "t", "u", "v", "w", "x", "y", "z">>
Digits == <<"0", "1", "2", "3", "4", "5", "6", "7", "8", "9">>

\* str.lower(), on one character and on a str
lower_char(c) ==
    IF \E i \in 1..Len(UpperCase) : UpperCase[i] = c
    THEN LowerCase[CHOOSE i \in 1..Len(UpperCase) : UpperCase[i] = c]
    ELSE c

\* The str left as it is: a comparison that forgets lower().
lower_keep(s) == s

lower(s) == [i \in 1..Len(s) |-> lower_char(s[i])]

\* str.startswith(prefix)
startswith(s, prefix) ==
    /\ Len(s) >= Len(prefix)
    /\ SubSeq(s, 1, Len(prefix)) = prefix

(***************************************************************************)
(* base64.b64encode(...).decode("ascii") and its inverse.  Bytes are       *)
(* integers 0..255, the encoded text is a tuple of characters.             *)
(***************************************************************************)
B64Alphabet == UpperCase \o LowerCase \o Digits \o <<"+", "/">>
B64Pad == "="

B64Char(n) == B64Alphabet[n + 1]

RECURSIVE b64encode(_)
b64encode(bytes) ==
    IF Len(bytes) = 0 THEN <<>>
    ELSE IF Len(bytes) = 1 THEN
        <<B64Char(bytes[1] \div 4), B64Char((bytes[1] % 4) * 16), B64Pad, B64Pad>>
    ELSE IF Len(bytes) = 2 THEN
        <<B64Char(bytes[1] \div 4),
          B64Char((bytes[1] % 4) * 16 + bytes[2] \div 16),
          B64Char((bytes[2] % 16) * 4), B64Pad>>
    ELSE
        <<B64Char(bytes[1] \div 4),
          B64Char((bytes[1] % 4) * 16 + bytes[2] \div 16),
          B64Char((bytes[2] % 16) * 4 + bytes[3] \div 64),
          B64Char(bytes[3] % 64)>>
        \o b64encode(SubSeq(bytes, 4, Len(bytes)))

B64Index(c) == (CHOOSE i \in 1..Len(B64Alphabet) : B64Alphabet[i] = c) - 1

RECURSIVE b64decode(_)
b64decode(text) ==
    IF Len(text) < 4 THEN <<>>
    ELSE
        LET a == B64Index(text[1])
            b == B64Index(text[2])
            rest == b64decode(SubSeq(text, 5, Len(text)))
        IN  IF text[3] = B64Pad THEN <<a * 4 + b \div 16>>
            ELSE LET c == B64Index(text[3]) IN
                IF text[4] = B64Pad
                THEN <<a * 4 + b \div 16, (b % 16) * 16 + c \div 4>>
                ELSE <<a * 4 + b \div 16, (b % 16) * 16 + c \div 4,
                       (c % 4) * 64 + B64Index(text[4])>> \o rest

\* b"".join(chunks)
RECURSIVE join(_)
join(chunks) ==
    IF chunks = <<>> THEN <<>> ELSE Head(chunks) \o join(Tail(chunks))

(***************************************************************************)
(* get_issue_attachments_content, lines 392-409: read up to                *)
(* max_bytes_per_attachment bytes from the chunk iterator.                 *)
(***************************************************************************)
\* The chunk appended whole: a read that forgets the slice.
slice_whole(chunk, remaining) == chunk

\* chunk[:remaining]
slice(chunk, remaining) == SubSeq(chunk, 1, remaining)

\* The loop over response.iter_content().  k is the position of the
\* iterator, chunks the list built so far.  exhausted tells whether the loop
\* ran the iterator to its end (and so met an error the stream ends with).
RECURSIVE read_capped(_, _, _, _)
read_capped(stream, k, remaining, chunks) ==
    IF k > Len(stream)
    THEN [chunks |-> chunks, truncated |-> FALSE, exhausted |-> TRUE]
    ELSE LET chunk == stream[k] IN
        IF chunk = <<>> THEN read_capped(stream, k + 1, remaining, chunks)
        ELSE IF remaining <= 0
        THEN [chunks |-> chunks, truncated |-> TRUE, exhausted |-> FALSE]
        ELSE IF Len(chunk) > remaining
        THEN [chunks |-> Append(chunks, slice(chunk, remaining)),
              truncated |-> TRUE, exhausted |-> FALSE]
        ELSE read_capped(stream, k + 1, remaining - Len(chunk),
                         Append(chunks, chunk))

(***************************************************************************)
(* Collaborators.                                                          *)
(***************************************************************************)
\* What jira._session.get(url, stream=True) does for one url: the call
\* raises ("geterr"), raise_for_status() raises ("badstatus"), or the body
\* is delivered as chunks, after which the iterator ends or (err) raises.
GetRaises == [kind |-> "geterr", chunks |-> <<>>, err |-> FALSE]
BadStatus == [kind |-> "badstatus", chunks |-> <<>>, err |-> FALSE]
Stream(chunks, err) == [kind |-> "stream", chunks |-> chunks, err |-> err]
NoTransfer == [kind |-> "unused", chunks |-> <<>>, err |-> FALSE]

\* str(exc) of the exception a transfer ends with.
exc_text(outcome) ==
    CASE outcome.kind = "geterr" -> "ConnectionError"
      [] outcome.kind = "badstatus" -> "HTTPError"
      [] OTHER -> "ChunkedEncodingError"

\* What jira.issue(issue_key, fields="attachment") does: it raises, or it
\* returns a value that is a dict or not, with or without "fields", with or
\* without "attachment" in it.
IssueRaises ==
    [kind |-> "raise", isdict |-> FALSE, has_fields |-> FALSE,
     has_attachment |-> FALSE, attachment |-> <<>>]
IssueNotDict ==
    [kind |-> "value", isdict |-> FALSE, has_fields |-> FALSE,
     has_attachment |-> FALSE, attachment |-> <<>>]
IssueNoFields ==
    [kind |-> "value", isdict |-> TRUE, has_fields |-> FALSE,
     has_attachment |-> FALSE, attachment |-> <<>>]
IssueNoAttachmentField ==
    [kind |-> "value", isdict |-> TRUE, has_fields |-> TRUE,
     has_attachment |-> FALSE, attachment |-> <<>>]
IssueWith(raw_list) ==
    [kind |-> "value", isdict |-> TRUE, has_fields |-> TRUE,
     has_attachment |-> TRUE, attachment |-> raw_list]

\* issue_data.get("fields", {}).get("attachment", [])
attachment_of(issue_data) ==
    IF issue_data.has_fields /\ issue_data.has_attachment
    THEN issue_data.attachment
    ELSE <<>>

\* One element of the "attachment" list of the REST response.
RawAttachment(isdict, id, filename, content, mimeType) ==
    [isdict |-> isdict, id |-> id, filename |-> filename, content |-> content,
     size |-> 500000, mimeType |-> mimeType]

\* JiraAttachment.from_api_response
from_api_response(raw) ==
    [id |-> raw.id, filename |-> raw.filename, url |-> raw.content,
     size |-> raw.size, content_type |-> raw.mimeType]

\* JiraAttachment.to_simplified_dict
to_simplified_dict(a) ==
    [filename |-> a.filename, id |-> a.id, size |-> a.size,
     content_type |-> a.content_type, url |-> a.url]

\* "not x" for an optional str held as a string (a url, an issue key) and
\* for one held as a tuple of characters (a content type)
falsy(x) == x = None \/ x[1] = ""
falsy_chars(x) == x = None \/ x[1] = <<>>

\* for raw in attachment_field: if isinstance(raw, dict): attachments.append(...)
\* An element of the list is the JiraAttachment a with the position idx of
\* the raw element it was built from (the identity of the object).
parsed_attachments(attachment_field) ==
    LET all == [i \in 1..Len(attachment_field) |->
                    [idx |-> i, a |-> from_api_response(attachment_field[i])]]
        isdict(x) == attachment_field[x.idx].isdict
    IN  SelectSeq(all, isdict)

(***************************************************************************)
(* get_issue_attachments_content                                           *)
(***************************************************************************)
\* _is_image without lower().
is_image_case_sensitive(a) ==
    IF falsy_chars(a.content_type) THEN FALSE
    ELSE startswith(lower_keep(a.content_type[1]), Str_image_slash)

\* _is_image
is_image(a) ==
    IF falsy_chars(a.content_type) THEN FALSE
    ELSE startswith(lower(a.content_type[1]), Str_image_slash)

\* The list left whole: a call that forgets the count cap.
first_uncapped(attachments, max_attachments) == attachments

\* attachments[:max_attachments]
first(attachments, max_attachments) ==
    SubSeq(attachments, 1,
           IF max_attachments < Len(attachments) THEN max_attachments
           ELSE Len(attachments))

\* The accumulators of a batch loop: the two result lists, the collaborator
\* calls made so far and, as ghosts, the input positions behind the entries.
EmptyAcc ==
    [ok |-> <<>>, failed |-> <<>>, calls |-> <<>>,
     ok_idx |-> <<>>, failed_idx |-> <<>>, fs |-> <<>>]

GetCall(idx, url) == [fn |-> "session.get", idx |-> idx, arg |-> url]
IssueCall(issue_key) == [fn |-> "issue", idx |-> 0, arg |-> issue_key]

\* Lines 375-432: the body of the loop for one attachment.
content_item(acc, item, max_bytes, outcome) ==
    LET a == item.a
        fail(text, cs) ==
            [acc EXCEPT !.failed = Append(@, [filename |-> a.filename,
                                              id |-> a.id, error |-> <<text>>]),
                        !.failed_idx = Append(@, item.idx),
                        !.calls = cs]
        got == Append(acc.calls, GetCall(item.idx, a.url[1]))
    IN  IF falsy(a.url) THEN fail("No URL available for attachment", acc.calls)
        ELSE IF outcome.kind # "stream" THEN fail(exc_text(outcome), got)
        ELSE LET r == read_capped(outcome.chunks, 1, max_bytes, <<>>) IN
            IF r.exhausted /\ outcome.err THEN fail(exc_text(outcome), got)
            ELSE [acc EXCEPT
                    !.ok = Append(@,
                        [info |-> to_simplified_dict(a),
                         content_base64 |-> b64encode(join(r.chunks)),
                         truncated |-> r.truncated]),
                    !.ok_idx = Append(@, item.idx),
                    !.calls = got]

\* The loop with "break" where the code has "continue".
RECURSIVE content_loop_break(_, _, _, _, _)
content_loop_break(acc, attachments, k, max_bytes, net) ==
    IF k > Len(attachments) THEN acc
    ELSE LET next == content_item(acc, attachments[k], max_bytes,
                                  net[attachments[k].idx])
         IN  IF Len(next.failed) > Len(acc.failed) THEN next
             ELSE content_loop_break(next, attachments, k + 1, max_bytes, net)

RECURSIVE content_loop(_, _, _, _, _)
content_loop(acc, attachments, k, max_bytes, net) ==
    IF k > Len(attachments) THEN acc
    ELSE content_loop(
            content_item(acc, attachments[k], max_bytes, net[attachments[k].idx]),
            attachments, k + 1, max_bytes, net)

\* How a call ends: the value it returns or the exception it raises, with
\* the calls made, the filesystem left behind and the ghost positions.
Returned(value, acc) ==
    [ret |-> [raised |-> FALSE, value |-> value], calls |-> acc.calls,
     fs |-> acc.fs, fate |-> [ok |-> acc.ok_idx, failed |-> acc.failed_idx]]
Raised(exc, cs, files) ==
    [ret |-> [raised |-> TRUE, value |-> [exception |-> exc]], calls |-> cs,
     fs |-> files, fate |-> [ok |-> <<>>, failed |-> <<>>]]

\* The precondition with "and" for "or".
limits_invalid_both(max_attachments, max_bytes_per_attachment) ==
    max_attachments <= 0 /\ max_bytes_per_attachment <= 0

\* Line 319: the precondition on the two limits.
limits_invalid(max_attachments, max_bytes_per_attachment) ==
    max_attachments <= 0 \/ max_bytes_per_attachment <= 0

get_issue_attachments_content(issue_key, only_images, max_attachments, max_bytes_per_attachment, e) ==
    IF limits_invalid(max_attachments, max_bytes_per_attachment)
    THEN Returned([success |-> FALSE, issue_key |-> issue_key,
                   error |-> <<"max_attachments and max_bytes_per_attachment must be positive">>],
                  EmptyAcc)
    ELSE LET cs == <<IssueCall(issue_key)>> IN
        IF e.issue.kind = "raise" THEN Raised("HTTPError", cs, <<>>)
        ELSE IF ~e.issue.isdict THEN Raised("TypeError", cs, <<>>)
        ELSE IF attachment_of(e.issue) = <<>>
        THEN Returned([success |-> TRUE, issue_key |-> issue_key, total |-> 0,
                       returned |-> 0, attachments |-> <<>>, failed |-> <<>>],
                      [EmptyAcc EXCEPT !.calls = cs])
        ELSE
            LET parsed == parsed_attachments(attachment_of(e.issue))
                keep(x) == is_image(x.a)
                filtered == IF only_images THEN SelectSeq(parsed, keep) ELSE parsed
                total_available == Len(filtered)
                acc == content_loop([EmptyAcc EXCEPT !.calls = cs],
                                    first(filtered, max_attachments), 1,
                                    max_bytes_per_attachment, e.net)
            IN  Returned([success |-> TRUE, issue_key |-> issue_key,
                          total |-> total_available, returned |-> Len(acc.ok),
                          attachments |-> acc.ok, failed |-> acc.failed],
                         acc)

(***************************************************************************)
(* Paths and the filesystem.  A path is the tuple of its "/"-separated     *)
(* parts: "out/b.png" is <<"out", "b.png">>, "/tmp/b.png" is               *)
(* <<"", "tmp", "b.png">>, "" is <<"">>.  The filesystem maps the          *)
(* normalised absolute path of every existing file and directory to its    *)
(* kind and content.                                                       *)
(***************************************************************************)
Cwd == <<"", "work">>
Root == <<"", "">>

\* os.path.isabs
isabs(p) == Len(p) >= 2 /\ p[1] = ""

\* os.path.normpath of an absolute path
RECURSIVE norm_parts(_, _)
norm_parts(parts, acc) ==
    IF parts = <<>> THEN acc
    ELSE IF Head(parts) \in {"", "."} THEN norm_parts(Tail(parts), acc)
    ELSE IF Head(parts) = ".."
    THEN norm_parts(Tail(parts),
                    IF acc = <<>> THEN acc ELSE SubSeq(acc, 1, Len(acc) - 1))
    ELSE norm_parts(Tail(parts), Append(acc, Head(parts)))

normpath(p) ==
    LET parts == norm_parts(p, <<>>)
    IN  IF parts = <<>> THEN Root ELSE <<"">> \o parts

\* os.path.abspath
abspath(p) == normpath(IF isabs(p) THEN p ELSE Cwd \o p)

\* os.path.dirname
dirname(p) == IF Len(p) <= 2 THEN Root ELSE SubSeq(p, 1, Len(p) - 1)

\* The first part of the path for its last.
basename_dir(p) == p[1]

\* os.path.basename
basename(p) == p[Len(p)]

\* pathlib.Path(filename).name
path_name(p) ==
    LET named(c) == c \notin {"", "."}
        parts == SelectSeq(p, named)
    IN  IF parts = <<>> THEN "" ELSE parts[Len(parts)]

\* target_path / safe_filename
path_join(dir, name) == IF name = "" THEN dir ELSE Append(dir, name)

Dir == [kind |-> "dir", data |-> <<>>]
File(data) == [kind |-> "file", data |-> data]

exists(files, p) == abspath(p) \in DOMAIN files
isdir(files, p) == exists(files, p) /\ files[abspath(p)].kind = "dir"

\* files with directory d and the ancestors it lacks
RECURSIVE with_dirs(_, _)
with_dirs(files, d) ==
    IF d \in DOMAIN files \/ d = Root THEN files
    ELSE (d :> Dir) @@ with_dirs(files, dirname(d))

\* os.makedirs(d, exist_ok=True) and Path(d).mkdir(parents=True, exist_ok=True):
\* nothing to do for an existing directory, an error when d is a file or
\* cannot be created.
makedirs(files, d, creatable) ==
    IF exists(files, d)
    THEN [ok |-> isdir(files, d), fs |-> files]
    ELSE IF creatable
    THEN [ok |-> TRUE, fs |-> with_dirs(files, abspath(d))]
    ELSE [ok |-> FALSE, fs |-> files]

\* open(p, "wb"): an error on a directory, else the file is created or emptied.
open_wb(files, p) ==
    IF isdir(files, p) \/ ~isdir(files, dirname(abspath(p)))
    THEN [ok |-> FALSE, fs |-> files]
    ELSE [ok |-> TRUE, fs |-> (abspath(p) :> File(<<>>)) @@ files]

\* f.write(chunk) for every chunk the iterator yields
written(files, p, chunks) == (abspath(p) :> File(join(chunks))) @@ files

(***************************************************************************)
(* download_attachment                                                     *)
(***************************************************************************)
\* world: [fs, mkdir_ok, outcome]: the filesystem at the call, whether a
\* missing directory can be created, what the GET does.  idx is the ghost
\* position of the attachment in a batch (0 for a call of its own).
download_attachment(url, target_path, world, idx) ==
    IF url = "" THEN [value |-> FALSE, fs |-> world.fs, calls |-> <<>>]
    ELSE
        LET path == IF isabs(target_path) THEN target_path ELSE abspath(target_path)
            made == makedirs(world.fs, dirname(path), world.mkdir_ok)
            got == <<GetCall(idx, url)>>
            opened == open_wb(made.fs, path)
            after == written(opened.fs, path, world.outcome.chunks)
        IN  IF ~made.ok THEN [value |-> FALSE, fs |-> made.fs, calls |-> <<>>]
            ELSE IF world.outcome.kind # "stream"
            THEN [value |-> FALSE, fs |-> made.fs, calls |-> got]
            ELSE IF ~opened.ok THEN [value |-> FALSE, fs |-> opened.fs, calls |-> got]
            ELSE IF world.outcome.err THEN [value |-> FALSE, fs |-> after, calls |-> got]
            ELSE [value |-> exists(after, path), fs |-> after, calls |-> got]

(***************************************************************************)
(* download_issue_attachments                                              *)
(***************************************************************************)
\* Lines 131-157: the body of the loop for one attachment.
download_item(acc, item, target_path, outcome, mkdir_ok) ==
    LET a == item.a
        file_path == path_join(target_path, path_name(a.filename))
        d == download_attachment(a.url[1], file_path,
                [fs |-> acc.fs, mkdir_ok |-> mkdir_ok, outcome |-> outcome],
                item.idx)
    IN  IF falsy(a.url)
        THEN [acc EXCEPT
                !.failed = Append(@, [filename |-> a.filename,
                                      error |-> <<"No URL available">>]),
                !.failed_idx = Append(@, item.idx)]
        ELSE IF d.value
        THEN [acc EXCEPT
                !.ok = Append(@, [filename |-> a.filename, path |-> file_path,
                                  size |-> a.size]),
                !.ok_idx = Append(@, item.idx),
                !.calls = @ \o d.calls,
                !.fs = d.fs]
        ELSE [acc EXCEPT
                !.failed = Append(@, [filename |-> a.filename,
                                      error |-> <<"Download failed">>]),
                !.failed_idx = Append(@, item.idx),
                !.calls = @ \o d.calls,
                !.fs = d.fs]

RECURSIVE download_loop(_, _, _, _, _, _)
download_loop(acc, attachments, k, target_path, net, mkdir_ok) ==
    IF k > Len(attachments) THEN acc
    ELSE download_loop(
            download_item(acc, attachments[k], target_path,
                          net[attachments[k].idx], mkdir_ok),
            attachments, k + 1, target_path, net, mkdir_ok)

\* e: [fs, mkdir_ok, issue, net]
download_issue_attachments(issue_key, target_dir, e) ==
    LET target_path == IF isabs(target_dir) THEN target_dir ELSE abspath(target_dir)
        made == makedirs(e.fs, target_path, e.mkdir_ok)
        cs == <<IssueCall(issue_key)>>
        attachment_data == attachment_of(e.issue)
    IN  IF ~made.ok THEN Raised("OSError", <<>>, made.fs)
        ELSE IF e.issue.kind = "raise" THEN Raised("HTTPError", cs, made.fs)
        ELSE IF ~e.issue.isdict THEN Raised("TypeError", cs, made.fs)
        ELSE IF ~e.issue.has_fields
        THEN Returned([success |-> FALSE,
                       error |-> <<"Could not retrieve issue", issue_key>>],
                      [EmptyAcc EXCEPT !.calls = cs, !.fs = made.fs])
        ELSE IF attachment_data = <<>>
        THEN Returned([success |-> TRUE,
                       message |-> <<"No attachments found for issue", issue_key>>,
                       downloaded |-> <<>>, failed |-> <<>>],
                      [EmptyAcc EXCEPT !.calls = cs, !.fs = made.fs])
        ELSE
            LET attachments == parsed_attachments(attachment_data)
                acc == download_loop([EmptyAcc EXCEPT !.calls = cs, !.fs = made.fs],
                                     attachments, 1, target_path, e.net, e.mkdir_ok)
            IN  Returned([success |-> TRUE, issue_key |-> issue_key,
                          total |-> Len(attachments),
                          downloaded |-> acc.ok, failed |-> acc.failed],
                         acc)

(***************************************************************************)
(* upload_attachment and upload_attachments                                *)
(***************************************************************************)
\* What jira.add_attachment(issue_key, filename) does: it raises, or it
\* returns None, a dict or a list with n entries; a dict may carry an "id".
AddRaises == [kind |-> "raise", t |-> "none", n |-> 0, id |-> None]
AddReturns(t, n, id) == [kind |-> "value", t |-> t, n |-> n, id |-> id]
NoUpload == [kind |-> "unused", t |-> "none", n |-> 0, id |-> None]

AddCall(idx, issue_key, path) ==
    [fn |-> "add_attachment", idx |-> idx, arg |-> <<issue_key, path>>]

\* Every response taken as a success: an upload that forgets "if attachment:".
truthy_any(attachment) == TRUE

\* "if attachment:"
truthy(attachment) == attachment.t # "none" /\ attachment.n > 0

\* attachment.get("id") if isinstance(attachment, dict) else None
id_of(attachment) == IF attachment.t = "dict" THEN attachment.id ELSE None

\* world: [fs, response]; idx is the ghost position of the path in a batch.
upload_attachment(issue_key, file_path, world, idx) ==
    IF issue_key = ""
    THEN [value |-> [success |-> FALSE, error |-> <<"No issue key provided">>],
          calls |-> <<>>]
    ELSE IF file_path = <<"">>
    THEN [value |-> [success |-> FALSE, error |-> <<"No file path provided">>],
          calls |-> <<>>]
    ELSE
        LET path == IF isabs(file_path) THEN file_path ELSE abspath(file_path)
            filename == basename(path)
            added == <<AddCall(idx, issue_key, path)>>
        IN  IF ~exists(world.fs, path)
            THEN [value |-> [success |-> FALSE, error |-> <<"File not found:", path>>],
                  calls |-> <<>>]
            ELSE IF isdir(world.fs, path)
            THEN [value |-> [success |-> FALSE, error |-> <<"IsADirectoryError">>],
                  calls |-> <<>>]
            ELSE IF world.response.kind = "raise"
            THEN [value |-> [success |-> FALSE, error |-> <<"HTTPError">>],
                  calls |-> added]
            ELSE IF truthy(world.response)
            THEN [value |-> [success |-> TRUE, issue_key |-> issue_key,
                             filename |-> filename,
                             size |-> Len(world.fs[abspath(path)].data),
                             id |-> id_of(world.response)],
                  calls |-> added]
            ELSE [value |-> [success |-> FALSE,
                             error |-> <<"Failed to upload attachment",
                                         filename, issue_key>>],
                  calls |-> added]

\* The loop body without its "else": a success is recorded as a failure too.
upload_item_no_else(acc, issue_key, file_path, idx, response) ==
    LET u == upload_attachment(issue_key, file_path,
                               [fs |-> acc.fs, response |-> response], idx)
        result == u.value
        failed == [acc EXCEPT
                    !.failed = Append(@, [filename |-> basename(file_path),
                                          error |-> <<"None">>]),
                    !.failed_idx = Append(@, idx),
                    !.calls = @ \o u.calls]
    IN  IF result.success
        THEN [failed EXCEPT
                !.ok = Append(@, [filename |-> result.filename,
                                  size |-> result.size, id |-> result.id]),
                !.ok_idx = Append(@, idx)]
        ELSE failed

\* Lines 258-275: the body of the loop for one path.
upload_item(acc, issue_key, file_path, idx, response) ==
    LET u == upload_attachment(issue_key, file_path,
                               [fs |-> acc.fs, response |-> response], idx)
        result == u.value
    IN  IF result.success
        THEN [acc EXCEPT
                !.ok = Append(@, [filename |-> result.filename,
                                  size |-> result.size, id |-> result.id]),
                !.ok_idx = Append(@, idx),
                !.calls = @ \o u.calls]
        ELSE [acc EXCEPT
                !.failed = Append(@, [filename |-> basename(file_path),
                                      error |-> result.error]),
                !.failed_idx = Append(@, idx),
                !.calls = @ \o u.calls]

RECURSIVE upload_loop(_, _, _, _, _)
upload_loop(acc, issue_key, file_paths, k, responses) ==
    IF k > Len(file_paths) THEN acc
    ELSE upload_loop(upload_item(acc, issue_key, file_paths[k], k, responses[k]),
                     issue_key, file_paths, k + 1, responses)

\* e: [fs, responses]
upload_attachments(issue_key, file_paths, e) ==
    IF issue_key = ""
    THEN Returned([success |-> FALSE, error |-> <<"No issue key provided">>],
                  [EmptyAcc EXCEPT !.fs = e.fs])
    ELSE IF file_paths = <<>>
    THEN Returned([success |-> FALSE, error |-> <<"No file paths provided">>],
                  [EmptyAcc EXCEPT !.fs = e.fs])
    ELSE
        LET acc == upload_loop([EmptyAcc EXCEPT !.fs = e.fs], issue_key,
                               file_paths, 1, e.responses)
        IN  Returned([success |-> TRUE, issue_key |-> issue_key,
                      total |-> Len(file_paths),
                      uploaded |-> acc.ok, failed |-> acc.failed],
                     acc)

(***************************************************************************)
(* The state machine.                                                      *)
(***************************************************************************)
Init ==
    /\ op = "none"
    /\ args = <<>>
    /\ env = <<>>
    /\ ret = [raised |-> FALSE, value |-> [bool |-> FALSE]]
    /\ calls = <<>>
    /\ fs = <<>>
    /\ fate = [ok |-> <<>>, failed |-> <<>>]

\* The collaborators' behaviours a call may meet.
SampleOutcomes ==
    {GetRaises, BadStatus,
     Stream(<< <<1, 2>>, <<>>, <<3>> >>, FALSE),
     Stream(<< <<1, 2, 3>> >>, TRUE)}

IssueKeys == {"", "X-1"}

BaseFs == (Cwd :> Dir)
OldFile == File(<<9, 9, 9, 9>>)

\* download_attachment(url, target_path)
DownloadAttachment ==
    /\ op = "none"
    /\ \E url \in {"", "http://h/b"},
       target_path \in {<<"out", "b.png">>, <<"", "work", "b.png">>},
       state \in {"absent", "file", "dir"},
       mkdir_ok \in BOOLEAN,
       outcome \in SampleOutcomes :
        LET a == [url |-> url, target_path |-> target_path]
            fs0 == CASE state = "absent" -> BaseFs
                     [] state = "file" ->
                            (abspath(target_path) :> OldFile)
                            @@ with_dirs(BaseFs, dirname(abspath(target_path)))
                     [] OTHER -> with_dirs(BaseFs, abspath(target_path))
            e == [fs |-> fs0, mkdir_ok |-> mkdir_ok,
                  outcome |-> IF url = "" THEN NoTransfer ELSE outcome]
            out == download_attachment(url, target_path, e, 0)
        IN  /\ op' = "download_attachment"
            /\ args' = a
            /\ env' = e
            /\ ret' = [raised |-> FALSE, value |-> [bool |-> out.value]]
            /\ calls' = out.calls
            /\ fate' = fate
            /\ fs' = out.fs

\* The attachment lists an issue may carry.  An element is drawn as a case
\* <<raw attachment, outcome of its transfer>>: elements that are not dicts,
\* attachments without a url, and attachments with a url whose transfer goes
\* each way.  Names and Types are the filenames and content types to draw
\* from; ids are given by position.
IdOf(i) == <<"1000", i>>

Cases(Names, Types) ==
    {<<RawAttachment(FALSE, None, <<"">>, None, None), NoTransfer>>}
    \cup {<<RawAttachment(TRUE, None, name, None, type), NoTransfer>> :
            name \in Names, type \in Types}
    \cup {<<RawAttachment(TRUE, None, name, Some("http://h/b"), type), outcome>> :
            name \in Names, type \in Types, outcome \in SampleOutcomes}

RawOf(choice) == [i \in 1..Len(choice) |-> [choice[i][1] EXCEPT !.id = IdOf(i)]]
NetOf(choice) == [i \in 1..Len(choice) |-> choice[i][2]]

IssueShapes == {IssueRaises, IssueNotDict, IssueNoFields, IssueNoAttachmentField}

\* What a call may meet: an issue lookup of each shape, or one returning an
\* attachment list of at most n elements, with the transfers of the list.
Worlds(cases, n) ==
    {[issue |-> shape, net |-> <<>>] : shape \in IssueShapes}
    \cup {[issue |-> IssueWith(RawOf(choice)), net |-> NetOf(choice)] :
            choice \in SeqUpTo(cases, n)}

\* download_issue_attachments(issue_key, target_dir)
DownloadIssueAttachments ==
    /\ op = "none"
    /\ \E w \in Worlds(Cases({<<"a.png">>, <<"..", "b.png">>}, {None}), MaxItems),
          mkdir_ok \in BOOLEAN :
        LET a == [issue_key |-> "X-1", target_dir |-> <<"out">>]
            e == [fs |-> BaseFs, mkdir_ok |-> mkdir_ok,
                  issue |-> w.issue, net |-> w.net]
            out == download_issue_attachments(a.issue_key, a.target_dir, e)
        IN  /\ op' = "download_issue_attachments"
            /\ args' = a
            /\ env' = e
            /\ ret' = out.ret
            /\ calls' = out.calls
            /\ fate' = out.fate
            /\ fs' = out.fs

\* get_issue_attachments_content(issue_key, only_images, max_attachments,
\*                               max_bytes_per_attachment)
ContentTypes == {None, Some(Str_image_png), Some(Str_IMAGE_PNG), Some(Str_text_plain)}

GetIssueAttachmentsContent ==
    /\ op = "none"
    /\ \E only_images \in BOOLEAN,
          max_attachments \in {-1, 0, 1, 2},
          max_bytes_per_attachment \in {0, 2, 4} :
       \E w \in Worlds(Cases({<<"a.png">>}, ContentTypes),
                       IF max_attachments <= 0 \/ max_bytes_per_attachment <= 0
                       THEN 1 ELSE MaxItems) :
        LET a == [issue_key |-> "X-1", only_images |-> only_images,
                  max_attachments |-> max_attachments,
                  max_bytes_per_attachment |-> max_bytes_per_attachment]
            e == [issue |-> w.issue, net |-> w.net]
            out == get_issue_attachments_content(a.issue_key, a.only_images,
                       a.max_attachments, a.max_bytes_per_attachment, e)
        IN  /\ op' = "get_issue_attachments_content"
            /\ args' = a
            /\ env' = e
            /\ ret' = out.ret
            /\ calls' = out.calls
            /\ fate' = out.fate
            /\ fs' = out.fs

\* The local files of an upload, and the paths to draw from: the empty
\* path, a relative and an absolute path of a file, a path of no file, and
\* the path "sub/" of a directory.
UploadFs ==
    (<<"", "work", "f.txt">> :> File(<<1, 2, 3>>))
    @@ (<<"", "tmp", "g.bin">> :> File(<<>>))
    @@ with_dirs(with_dirs(BaseFs, <<"", "tmp">>), <<"", "work", "sub">>)

UploadPaths ==
    {<<"">>, <<"f.txt">>, <<"", "tmp", "g.bin">>, <<"nodir", "missing.txt">>,
     <<"sub", "">>}

Responses ==
    {AddRaises, AddReturns("none", 0, None), AddReturns("dict", 0, None),
     AddReturns("list", 0, None), AddReturns("dict", 1, None),
     AddReturns("dict", 2, Some("10001")), AddReturns("list", 1, None)}

\* A response for each path that is an existing file, none for the rest.
Uploadable(file_path) ==
    /\ file_path # <<"">>
    /\ exists(UploadFs, file_path)
    /\ ~isdir(UploadFs, file_path)

ResponsesFor(file_paths) ==
    {r \in [1..Len(file_paths) -> Responses \cup {NoUpload}] :
        \A i \in 1..Len(file_paths) :
            (r[i] = NoUpload) <=> ~Uploadable(file_paths[i])}

\* upload_attachment(issue_key, file_path)
UploadAttachment ==
    /\ op = "none"
    /\ \E issue_key \in IssueKeys, file_path \in UploadPaths :
      \E r \in ResponsesFor(<<file_path>>) :
        LET a == [issue_key |-> issue_key, file_path |-> file_path]
            e == [fs |-> UploadFs, response |-> r[1]]
            out == upload_attachment(issue_key, file_path, e, 0)
        IN  /\ op' = "upload_attachment"
            /\ args' = a
            /\ env' = e
            /\ ret' = [raised |-> FALSE, value |-> out.value]
            /\ calls' = out.calls
            /\ fate' = fate
            /\ fs' = e.fs

\* upload_attachments(issue_key, file_paths)
UploadAttachments ==
    /\ op = "none"
    /\ \E issue_key \in IssueKeys, file_paths \in SeqUpTo(UploadPaths, MaxPaths) :
      \E r \in ResponsesFor(file_paths) :
        LET a == [issue_key |-> issue_key, file_paths |-> file_paths]
            e == [fs |-> UploadFs, responses |-> r]
            out == upload_attachments(issue_key, file_paths, e)
        IN  /\ op' = "upload_attachments"
            /\ args' = a
            /\ env' = e
            /\ ret' = out.ret
            /\ calls' = out.calls
            /\ fate' = out.fate
            /\ fs' = out.fs

Next ==
    \/ DownloadAttachment
    \/ DownloadIssueAttachments
    \/ UploadAttachment
    \/ UploadAttachments
    \/ GetIssueAttachmentsContent

Spec == Init /\ [][Next]_vars

(***************************************************************************)
(* Byte-level specification: one attachment, every way of cutting a body   *)
(* of at most MaxChunks chunks of at most MaxChunkLen bytes, every cap up  *)
(* to MaxCap.                                                              *)
(***************************************************************************)
ByteVals == {0, 255}
ChunkSet == SeqUpTo(ByteVals, MaxChunkLen)
ByteStreams == SeqUpTo(ChunkSet, MaxChunks)

OneImage == RawAttachment(TRUE, "10001", <<"b.png">>, Some("http://h/b"), Some(Str_image_png))

InlineBytes ==
    /\ op = "none"
    /\ \E stream \in ByteStreams, err \in BOOLEAN, cap \in 1..MaxCap :
        LET a == [issue_key |-> "X-1", only_images |-> TRUE, max_attachments |-> 5,
                  max_bytes_per_attachment |-> cap]
            e == [issue |-> IssueWith(<<OneImage>>), net |-> <<Stream(stream, err)>>]
            out == get_issue_attachments_content(a.issue_key, a.only_images,
                       a.max_attachments, a.max_bytes_per_attachment, e)
        IN  /\ op' = "get_issue_attachments_content"
            /\ args' = a
            /\ env' = e
            /\ ret' = out.ret
            /\ calls' = out.calls
            /\ fate' = out.fate
            /\ fs' = out.fs

NextBytes == InlineBytes

SpecBytes == Init /\ [][NextBytes]_vars

StreamBytes == join(env.net[1].chunks)
Prefix(s, n) == SubSeq(s, 1, IF n < Len(s) THEN n ELSE Len(s))

\* C2: with max_bytes_per_attachment = N > 0, every attachment that was
\* fetched successfully from a stream delivering M bytes (cut into chunks in
\* any way, empty chunks included) carries, once decoded, exactly the first
\* min(M, N) bytes of the stream, and truncated = TRUE exactly when M > N.
TruncationExact ==
    (op = "get_issue_attachments_content" /\ ~ret.raised /\ ret.value.success) =>
        \A i \in 1..Len(ret.value.attachments) :
            LET x == ret.value.attachments[i]
                N == args.max_bytes_per_attachment
                M == Len(StreamBytes)
                decoded == b64decode(x.content_base64)
            IN  /\ Len(decoded) <= N
                /\ decoded = Prefix(StreamBytes, N)
                /\ x.truncated = (M > N)

\* A body longer than the cap, cut so that a chunk straddles the cap, was inlined.
TruncationWitness ==
    /\ op = "get_issue_attachments_content"
    /\ ~ret.raised
    /\ ret.value.success
    /\ Len(ret.value.attachments) = 1
    /\ ret.value.attachments[1].truncated
    /\ Len(StreamBytes) > args.max_bytes_per_attachment
    /\ \E k \in 1..Len(env.net[1].chunks) :
          /\ env.net[1].chunks[k] = <<>>
          /\ k < Len(env.net[1].chunks)
    /\ Len(b64decode(ret.value.attachments[1].content_base64)) = 2

(***************************************************************************)
(* Properties of the main specification.  They are stated over the         *)
(* arguments, the collaborators' behaviour and the result of a call, with  *)
(* what a call should have processed worked out here from the inputs.      *)
(***************************************************************************)
Returns == op # "none" /\ ~ret.raised
Succeeds == Returns /\ ret.value.success

IsBatch == op \in {"download_issue_attachments", "upload_attachments",
                   "get_issue_attachments_content"}

\* The result list of successes of a batch call.
Succeeded ==
    CASE op = "download_issue_attachments" -> ret.value.downloaded
      [] op = "upload_attachments" -> ret.value.uploaded
      [] OTHER -> ret.value.attachments

Range(seq) == {seq[i] : i \in 1..Len(seq)}
Increasing(seq) == \A i, j \in 1..Len(seq) : i < j => seq[i] < seq[j]
Min(a, b) == IF a < b THEN a ELSE b

\* The positions of the session.get calls (add_attachment calls) made.
CallIdx(fn) ==
    LET picked(c) == c.fn = fn
        made == SelectSeq(calls, picked)
    IN  [i \in 1..Len(made) |-> made[i].idx]

\* The attachment list the issue lookup delivered.
RawList == env.issue.attachment

\* The content types that start, case-insensitively, with "image/".
ImageTypes == {Some(Str_image_png), Some(Str_IMAGE_PNG)}

\* The positions, in metadata order, of the records that pass the filter of
\* the call: every record for a download, the images under only_images.
Passes(i) ==
    /\ RawList[i].isdict
    /\ (op = "get_issue_attachments_content" /\ args.only_images)
          => RawList[i].mimeType \in ImageTypes
Candidates ==
    LET all == [i \in 1..Len(RawList) |-> i]
    IN  SelectSeq(all, Passes)

\* The positions the call has to process.
Processed ==
    IF op = "get_issue_attachments_content"
    THEN SubSeq(Candidates, 1, Min(Len(Candidates), args.max_attachments))
    ELSE Candidates

ProcessedWithUrl ==
    LET has_url(i) == RawList[i].content # None
    IN  SelectSeq(Processed, has_url)

\* C1: no public method raises, whatever the collaborators do.
NoExceptionEscapes == ~ret.raised

\* Every entry of a result list is that of the input item at its ghost position.
EntryNamesItem ==
    /\ op = "download_issue_attachments" =>
        /\ \A k \in 1..Len(fate.ok) :
              ret.value.downloaded[k].filename = RawList[fate.ok[k]].filename
        /\ \A k \in 1..Len(fate.failed) :
              ret.value.failed[k].filename = RawList[fate.failed[k]].filename
    /\ op = "get_issue_attachments_content" =>
        /\ \A k \in 1..Len(fate.ok) :
              ret.value.attachments[k].info.id = RawList[fate.ok[k]].id
        /\ \A k \in 1..Len(fate.failed) :
              ret.value.failed[k].id = RawList[fate.failed[k]].id
    /\ op = "upload_attachments" =>
        /\ \A k \in 1..Len(fate.failed) :
              ret.value.failed[k].filename
                  = args.file_paths[fate.failed[k]][Len(args.file_paths[fate.failed[k]])]

\* C3: a batch result with success = TRUE has len(succeeded) + len(failed)
\* <= total, and no input item has an entry in both lists; every entry is
\* that of the input item at its ghost position.  (A successful result
\* without "total", the answer of download_issue_attachments for an issue
\* without attachments, has both lists empty.)
BatchPartition ==
    (IsBatch /\ Succeeds) =>
        /\ Len(fate.ok) = Len(Succeeded)
        /\ Len(fate.failed) = Len(ret.value.failed)
        /\ EntryNamesItem
        /\ Range(fate.ok) \cap Range(fate.failed) = {}
        /\ IF "total" \in DOMAIN ret.value
           THEN Len(Succeeded) + Len(ret.value.failed) <= ret.value.total
           ELSE Succeeded = <<>> /\ ret.value.failed = <<>>

\* A batch with one success and one failure, and one with a gap between
\* total and the entries.
BatchPartitionWitness ==
    /\ IsBatch
    /\ Succeeds
    /\ "total" \in DOMAIN ret.value
    /\ Len(Succeeded) >= 1
    /\ Len(ret.value.failed) >= 1
    /\ Len(Succeeded) + Len(ret.value.failed) = ret.value.total

\* C4: get_issue_attachments_content reports total = F, the number of
\* records passing the filter; exactly the first min(F, max_attachments) of
\* them, in metadata order, get an entry, each exactly one, in attachments or
\* in failed; no other record gets an entry or a session.get.
CountCap ==
    (op = "get_issue_attachments_content" /\ Succeeds) =>
        LET F == Len(Candidates)
            K == args.max_attachments
        IN  /\ ret.value.total = F
            /\ ret.value.returned = Len(ret.value.attachments)
            /\ ret.value.returned + Len(ret.value.failed) = Min(F, K)
            /\ ret.value.returned <= K
            /\ Len(fate.ok) = ret.value.returned
            /\ Len(fate.failed) = Len(ret.value.failed)
            /\ Range(fate.ok) \cap Range(fate.failed) = {}
            /\ Range(fate.ok) \cup Range(fate.failed) = Range(Processed)
            /\ Range(CallIdx("session.get")) \subseteq Range(Processed)
            /\ EntryNamesItem

\* only_images with an upper-case image type, a record the filter drops
\* ahead of it, and more candidates than max_attachments.
CountCapWitness ==
    /\ op = "get_issue_attachments_content"
    /\ Succeeds
    /\ args.only_images
    /\ args.max_attachments = 1
    /\ ret.value.total = 2
    /\ ret.value.returned = 1
    /\ RawList[1].mimeType = Some(Str_IMAGE_PNG)
    /\ Len(calls) = 2

\* A call that meets an issue whose answer lacks "fields".
UnreadableIssue ==
    /\ op \in {"download_issue_attachments", "get_issue_attachments_content"}
    /\ env.issue = IssueNoFields
    /\ op = "get_issue_attachments_content" =>
          args.max_attachments > 0 /\ args.max_bytes_per_attachment > 0
    /\ op = "download_issue_attachments" => env.mkdir_ok

\* C5: an issue lookup whose answer lacks "fields" makes
\* download_issue_attachments and get_issue_attachments_content return
\* success = FALSE with an error, without any transfer.
UnreadableIssueIsAnError ==
    UnreadableIssue =>
        /\ ~ret.raised
        /\ ~ret.value.success
        /\ "error" \in DOMAIN ret.value
        /\ CallIdx("session.get") = <<>>

\* A call whose arguments fail a precondition.
BadArguments ==
    \/ op = "download_attachment" /\ args.url = ""
    \/ op = "upload_attachment" /\ (args.issue_key = "" \/ args.file_path = <<"">>)
    \/ op = "upload_attachments" /\ (args.issue_key = "" \/ args.file_paths = <<>>)
    \/ op = "get_issue_attachments_content"
          /\ (args.max_attachments <= 0 \/ args.max_bytes_per_attachment <= 0)

\* C6: a call with an empty url, an empty issue key, an empty file path or
\* list of paths, or a limit that is not positive returns a failure and
\* makes no collaborator call.
ArgumentErrorsBeforeIO ==
    BadArguments =>
        /\ ~ret.raised
        /\ IF op = "download_attachment" THEN ret.value.bool = FALSE
           ELSE ~ret.value.success /\ "error" \in DOMAIN ret.value
        /\ calls = <<>>

\* A call with one limit not positive on an issue that has an image to fetch.
ArgumentErrorsWitness ==
    /\ op = "get_issue_attachments_content"
    /\ args.max_attachments = 0
    /\ args.max_bytes_per_attachment = 2
    /\ Len(RawList) = 1
    /\ RawList[1].content # None
    /\ ~ret.value.success

\* The path, among those drawn, of no file; its basename is "missing.txt".
MissingPath == <<"nodir", "missing.txt">>

\* C7: upload_attachments with an issue key and at least one path returns
\* success = TRUE, total = len(file_paths) and exactly one entry per path,
\* in uploaded or in failed; a path of no file gets a failed entry named by
\* its basename and no add_attachment call.
UploadAllReports ==
    (op = "upload_attachments" /\ args.issue_key # "" /\ args.file_paths # <<>>) =>
        LET n == Len(args.file_paths) IN
        /\ Succeeds
        /\ ret.value.total = n
        /\ Len(ret.value.uploaded) = Len(fate.ok)
        /\ Len(ret.value.failed) = Len(fate.failed)
        /\ Len(fate.ok) + Len(fate.failed) = n
        /\ Range(fate.ok) \cap Range(fate.failed) = {}
        /\ Range(fate.ok) \cup Range(fate.failed) = 1..n
        /\ \A i \in 1..n : args.file_paths[i] = MissingPath =>
              /\ \E k \in 1..Len(fate.failed) :
                    /\ fate.failed[k] = i
                    /\ ret.value.failed[k].filename = "missing.txt"
              /\ i \notin Range(CallIdx("add_attachment"))

\* A batch of a path of no file and a file the remote accepts.
UploadAllWitness ==
    /\ op = "upload_attachments"
    /\ Succeeds
    /\ Len(args.file_paths) = 2
    /\ args.file_paths[1] = MissingPath
    /\ Len(ret.value.uploaded) = 1
    /\ Len(ret.value.failed) = 1
    /\ Len(calls) = 1

\* C8: in download_issue_attachments and get_issue_attachments_content every
\* processed record with a url gets exactly one session.get, the gets are
\* made in metadata order whatever became of the records before, and the
\* entries of each result list are in the order of their records.
OrderKept ==
    (op \in {"download_issue_attachments", "get_issue_attachments_content"}
     /\ Succeeds /\ RawList # <<>>) =>
        /\ CallIdx("session.get") = ProcessedWithUrl
        /\ Increasing(fate.ok)
        /\ Increasing(fate.failed)
        /\ Len(fate.ok) = Len(Succeeded)
        /\ Len(fate.failed) = Len(ret.value.failed)
        /\ EntryNamesItem

\* The first record's transfer fails and the second record is fetched.
OrderKeptWitness ==
    /\ op \in {"download_issue_attachments", "get_issue_attachments_content"}
    /\ Succeeds
    /\ Len(RawList) = 2
    /\ CallIdx("session.get") = <<1, 2>>
    /\ fate.failed = <<1>>
    /\ fate.ok = <<2>>

\* A call of upload_attachment, with an issue key and a path of an existing
\* file, in which add_attachment returns.
ExistingFiles == {<<"f.txt">>, <<"", "tmp", "g.bin">>}

Accepted ==
    /\ op = "upload_attachment"
    /\ args.issue_key # ""
    /\ args.file_path \in ExistingFiles
    /\ env.response.kind = "value"

ExpectedId == IF env.response.t = "dict" THEN env.response.id ELSE None

\* C9 as stated: upload_attachment with an issue key and an existing file
\* succeeds whenever add_attachment returns without error, with the id of
\* the response when it is a dict carrying one and None otherwise.
AcceptedUploadSucceeds ==
    Accepted => ret.value.success /\ ret.value.id = ExpectedId

\* The response is None, an empty dict or an empty list.
ResponseEmpty == env.response.t = "none" \/ env.response.n = 0

\* C9 as amended: it succeeds so when the response is not empty (a dict or a
\* list with an entry); an empty response (None, {}, []) is a failure.
NonEmptyResponseSucceeds ==
    Accepted =>
        IF ResponseEmpty
        THEN ~ret.value.success /\ "error" \in DOMAIN ret.value
        ELSE ret.value.success /\ ret.value.id = ExpectedId

\* A list with an entry comes back: a success without an id.
NonEmptyResponseWitness ==
    /\ Accepted
    /\ env.response.t = "list"
    /\ env.response.n = 1
    /\ ret.value.success
    /\ ret.value.id = None

\* What the filesystem holds at a path.
FileAt(files, p) == IF p \in DOMAIN files THEN files[p] ELSE [kind |-> "absent", data |-> <<>>]

\* C10: when download_attachment returns False the file at the destination
\* is what it was before the call.
DownloadAtomic ==
    (op = "download_attachment" /\ ret.value.bool = FALSE) =>
        FileAt(fs, abspath(args.target_path)) = FileAt(env.fs, abspath(args.target_path))

====
